---- MODULE Spec2Model ----
(***************************************************************************)
(* A model of the poll application.                                        *)
(*                                                                         *)
(* Two Django apps live in the repository.  poll_system keys votes by the  *)
(* authenticated user (tables Poll, PollOption, Vote with                  *)
(* unique_together (poll, user)); polls keys votes by the anonymous        *)
(* (IP, session) pair (tables Poll, Option, Vote with unique_together      *)
(* (option, voter_ip, voter_session)).  Each app has its own tables, so    *)
(* each has its own variables and its own specification: Spec for          *)
(* poll_system, SpecAnon for polls.                                        *)
(*                                                                         *)
(* The database runs in autocommit mode (no ATOMIC_REQUESTS in the         *)
(* settings): every statement commits on its own.  The vote handler of     *)
(* poll_system is therefore modelled in two steps, the lookups and the     *)
(* write, and requests of different threads interleave between them.       *)
(* An optional value (None in the code) is the empty set, a present one a  *)
(* singleton.                                                              *)
(*                                                                         *)
(* Both apps register users into the table of django.contrib.auth          *)
(* (SpecRegister) and report statistics over their tables (SpecStats for   *)
(* poll_system, SpecAnonStats for polls).  SpecCreate and SpecValidation   *)
(* send option lists at the limits of the validation; SpecResults reads    *)
(* the results of polls whose options were stored by hand.                 *)
(***************************************************************************)
EXTENDS Integers, Sequences, FiniteSets, TLC

\* ------------------------------------------------------------------ bounds

\* Poll ids handed out by the poll table's AutoField are 1..MaxPolls.
MaxPolls == 2
\* Vote ids handed out by the vote table's AutoField are 1..MaxVotes.
MaxVotes == 3
\* A request creates option rows only while the next id of the option
\* table's AutoField is at most MaxOptions.
MaxOptions == 3
\* The clock (timezone.now()) runs over 0..MaxTime.
MaxTime == 1
\* User ids handed out by the user table's AutoField are 1..MaxUsers.
MaxUsers == 3
\* The order field of an Option set by hand runs over 0..MaxOrder.
MaxOrder == 1

Users == {"alice", "bob"}
Anonymous == "AnonymousUser"
Threads == {"t1", "t2"}

\* The option lists a create or edit request may carry.
OptionLists == { <<"Pizza">>, <<"Pizza", "Sushi">>, <<>> }

\* A JSON null in a request body (None in the handler).
JsonNull == "null"

\* Lists at the limits of the option count, and lists with a blank, a
\* repeated and a null entry.
TenOptions == <<"Pizza", "Sushi", "Tacos", "Pasta", "Curry", "Salad", "Bagel",
                "Ramen", "Gyros", "Kebab">>
BoundaryLists == { <<"Pizza">>, <<"Pizza", "Sushi">>, TenOptions,
                   TenOptions \o <<"Wings">> }
OddLists == { <<"Pizza", " ">>, <<"Pizza", "Pizza">>, <<"Pizza", JsonNull>> }

\* ----------------------------------------------------------------- helpers

\* str.strip() on the texts of the model.
strip(s) == IF s = " " THEN "" ELSE s

\* The value of an optional that is present.
the(S) == CHOOSE x \in S : TRUE

Min(S) == CHOOSE x \in S : \A y \in S : x <= y

\* The elements of a finite set of integers in ascending order (the order
\* in which a table without Meta.ordering returns its rows: by primary key).
RECURSIVE Ascending(_)
Ascending(S) ==
    IF S = {} THEN <<>>
    ELSE <<Min(S)>> \o Ascending(S \ {Min(S)})

\* A raised ZeroDivisionError, as a percentage value: denominator 0.
ZeroDivisionError == [n |-> 0, d |-> 0]

\* Python's round(x, digits) of the number x = pct.n / pct.d, with
\* scale = 10^digits: the result in units of 1/scale, ties to even.
round(pct, scale) ==
    LET x == pct.n * scale
        q == x \div pct.d
        r == x % pct.d
    IN  [n |-> IF 2 * r < pct.d THEN q
               ELSE IF 2 * r > pct.d THEN q + 1
               ELSE IF q % 2 = 0 THEN q ELSE q + 1,
         d |-> scale]

\* Two percentage values denote the same number.
SameNumber(a, b) == a.d # 0 /\ b.d # 0 /\ a.n * b.d = b.n * a.d

VARIABLES
    polls,          \* poll_system Poll rows
    options,        \* poll_system PollOption rows
    votes,          \* poll_system Vote rows
    nextPollId,     \* AutoField sequences of the three tables
    nextOptionId,
    nextVoteId,
    now,            \* timezone.now()
    req,            \* per thread: the vote request in flight
    resp,           \* the response of the request that finished last
    anonPolls,      \* polls Poll rows
    anonOptions,    \* polls Option rows
    anonVotes,      \* polls Vote rows
    anonNextPollId, \* AutoField sequences of the three tables of polls
    anonNextOptionId,
    anonNextVoteId,
    users,          \* auth_user rows, the table both apps register into
    nextUserId,     \* its AutoField sequence
    reg             \* per thread: the registration request in flight

db == <<polls, options, votes, nextPollId, nextOptionId, nextVoteId>>

anon == <<anonPolls, anonOptions, anonVotes, anonNextPollId,
          anonNextOptionId, anonNextVoteId>>

auth == <<users, nextUserId, reg>>

vars == <<db, now, req, resp, anon, auth>>

\* ------------------------------------------------------- poll_system: rows

\* A thread that has no registration in flight.
NotRegistering == [pc |-> "idle", kind |-> "", username |-> "", email |-> ""]

Idle == [pc |-> "idle", user |-> Anonymous, poll |-> 0, option |-> 0,
         existing |-> {}]

NoResponse ==
    [kind |-> "none", status |-> 0, success |-> FALSE, exc |-> "",
     message |-> "", user |-> Anonymous, poll |-> 0, option |-> {},
     total_votes |-> 0, options |-> <<>>, user_vote |-> {},
     voter_ip |-> "", voter_session |-> "", title |-> "", texts |-> <<>>,
     expires_at |-> {}, flag |-> {}, username |-> "", email |-> "",
     completionRate |-> [n |-> 0, d |-> 1],
     avgVotesPerPoll |-> [n |-> 0, d |-> 1],
     engagementRate |-> [n |-> 0, d |-> 1],
     avgParticipation |-> [n |-> 0, d |-> 1],
     topPolls |-> <<>>]

\* JsonResponse({'success': False, 'error': ...}): the body of the error
\* responses of poll_system.  The field flag is the 'success' key of a
\* body: absent, True or False.
JsonFailure == [NoResponse EXCEPT !.flag = {FALSE}]

\* Poll.is_expired
is_expired(poll) ==
    IF poll.expires_at # {} THEN now > the(poll.expires_at) ELSE FALSE

PollIds(ps) == { p.id : p \in ps }
PollById(id) == CHOOSE p \in polls : p.id = id

\* poll.options.all(), as ids, over an option table
OptionsOf(os, pid) == { o.id : o \in { x \in os : x.poll = pid } }
OptionById(os, id) == CHOOSE o \in os : o.id = id

\* A count that forgets the poll filter.
total_votes_of_all_polls(vs, pid) == Cardinality(vs)

\* Vote.objects.filter(poll=poll).count(), Poll.total_votes
total_votes(vs, pid) == Cardinality({ v \in vs : v.poll = pid })

\* Vote.objects.filter(option=option).count(), PollOption.vote_count
vote_count(vs, oid) == Cardinality({ v \in vs : v.option = oid })

\* A deletion of options that leaves their votes in the table.
cascade_votes_none(vs, gone) == vs

\* on_delete=CASCADE from PollOption to Vote: the votes left once the
\* options `gone` are deleted.
cascade_votes(vs, gone) == { v \in vs : v.option \notin gone }

\* option_text.strip() raises AttributeError on an entry that is no string.
strip_raises(texts) == \E i \in 1 .. Len(texts) : texts[i] = JsonNull

\* The rows PollOption.objects.create makes for the non-blank texts of a
\* request's option list, ids handed out from `next` on; the loop ends at
\* the first entry on which strip() raises.
RECURSIVE create_options(_, _, _)
create_options(pid, texts, next) ==
    IF texts = <<>> THEN {}
    ELSE IF Head(texts) = JsonNull THEN {}
    ELSE IF strip(Head(texts)) # ""
         THEN { [id |-> next, poll |-> pid, text |-> strip(Head(texts))] }
              \cup create_options(pid, Tail(texts), next + 1)
         ELSE create_options(pid, Tail(texts), next)

\* The 'options' list of serialize_poll(poll, include_options=True).
serialize_options(os, vs, pid) ==
    LET ids == Ascending(OptionsOf(os, pid))
    IN  [i \in 1 .. Len(ids) |->
            [id |-> ids[i], text |-> OptionById(os, ids[i]).text,
             vote_count |-> vote_count(vs, ids[i])]]

\* The division without its guard: ZeroDivisionError on a poll without votes.
percentage_unguarded(count, total) ==
    IF total = 0 THEN ZeroDivisionError ELSE [n |-> count * 100, d |-> total]

\* percentage = (vote_count / total_votes * 100) if total_votes > 0 else 0
percentage(count, total) ==
    IF total > 0 THEN [n |-> count * 100, d |-> total] ELSE [n |-> 0, d |-> 1]

\* round(percentage, 1) of poll_results
round1(pct) == round(pct, 10)

\* PollOption.vote_percentage
vote_percentage(vs, o) ==
    IF total_votes(vs, o.poll) = 0 THEN [n |-> 0, d |-> 1]
    ELSE round([n |-> vote_count(vs, o.id) * 100,
                d |-> total_votes(vs, o.poll)], 10)

\* The 'options' list of poll_results.
options_with_votes(os, vs, pid) ==
    LET ids == Ascending(OptionsOf(os, pid))
        total == total_votes(vs, pid)
    IN  [i \in 1 .. Len(ids) |->
            [id |-> ids[i], text |-> OptionById(os, ids[i]).text,
             vote_count |-> vote_count(vs, ids[i]),
             percentage |-> LET pct == percentage(vote_count(vs, ids[i]), total)
                            IN  IF pct.d = 0 THEN ZeroDivisionError
                                ELSE round1(pct)]]

\* Vote.objects.filter(poll=poll, user=user).first(): the row of lowest id.
first_vote(vs, pid, u) ==
    LET found == { v \in vs : v.poll = pid /\ v.user = u }
    IN  { v \in found : \A w \in found : v.id <= w.id }

\* user_vote of poll_results: the option of the user's vote in the poll.
user_vote(vs, pid, u) ==
    IF u = Anonymous THEN {}
    ELSE { v.option : v \in first_vote(vs, pid, u) }

\* ------------------------------------------------- poll_system: handlers

Init ==
    /\ polls = {}
    /\ options = {}
    /\ votes = {}
    /\ nextPollId = 1
    /\ nextOptionId = 1
    /\ nextVoteId = 1
    /\ now = 0
    /\ req = [t \in Threads |-> Idle]
    /\ resp = NoResponse
    /\ anonPolls = {}
    /\ anonOptions = {}
    /\ anonVotes = {}
    /\ anonNextPollId = 1
    /\ anonNextOptionId = 1
    /\ anonNextVoteId = 1
    /\ users = {}
    /\ nextUserId = 1
    /\ reg = [t \in Threads |-> NotRegistering]

\* json_login_required: the 401 of an unauthenticated request.
Unauthenticated(kind, pid) ==
    [JsonFailure EXCEPT !.kind = kind, !.status = 401, !.poll = pid]

\* The validation of create_poll without the check of the maximum.
create_poll_invalid_without_maximum(title, texts) ==
    title = "" \/ Len(texts) < 2

\* The validation of create_poll: a title, and 2 to 10 entries in options.
create_poll_invalid(title, texts) ==
    title = "" \/ Len(texts) < 2 \/ Len(texts) > 10

\* POST /api/polls/create/
create_poll(u, title, texts, expires_at) ==
    /\ resp = NoResponse
    /\ UNCHANGED <<auth, votes, nextVoteId, now, req, anon>>
    /\ IF u = Anonymous
       THEN /\ resp' = [Unauthenticated("create_poll", 0) EXCEPT
                            !.title = title, !.texts = texts,
                            !.expires_at = expires_at]
            /\ UNCHANGED <<polls, options, nextPollId, nextOptionId>>
       ELSE IF create_poll_invalid(title, texts)
       THEN /\ resp' = [JsonFailure EXCEPT !.title = title, !.texts = texts,
                                    !.expires_at = expires_at, !.kind = "create_poll",
                                          !.status = 400, !.user = u]
            /\ UNCHANGED <<polls, options, nextPollId, nextOptionId>>
       ELSE LET made == create_options(nextPollId, texts, nextOptionId)
            IN  /\ nextPollId <= MaxPolls
                /\ nextOptionId <= MaxOptions
                /\ polls' = polls \cup
                       { [id |-> nextPollId, title |-> title, creator |-> u,
                          expires_at |-> expires_at, is_active |-> TRUE] }
                /\ options' = options \cup made
                /\ nextPollId' = nextPollId + 1
                /\ nextOptionId' = nextOptionId + Cardinality(made)
                /\ IF strip_raises(texts)
                   THEN \* except Exception, with the rows written so far
                        \* committed
                        resp' = [JsonFailure EXCEPT !.title = title, !.texts = texts,
                                    !.expires_at = expires_at,
                                    !.kind = "create_poll", !.status = 500,
                                    !.exc = "AttributeError", !.user = u,
                                    !.poll = nextPollId]
                   ELSE resp' = [JsonFailure EXCEPT !.title = title, !.texts = texts,
                                    !.expires_at = expires_at,
                                    !.kind = "create_poll", !.status = 200,
                                    !.success = TRUE, !.flag = {TRUE}, !.user = u,
                                    !.poll = nextPollId,
                                    !.options = serialize_options(options',
                                                    votes, nextPollId)]


\* The body of a vote response: serialize_poll(poll, include_options=True),
\* computed by queries that run after the write.
vote_response(status, message, r, vs) ==
    [JsonFailure EXCEPT
        !.kind = "vote_poll", !.status = status, !.success = TRUE, !.flag = {TRUE},
        !.message = message, !.user = r.user, !.poll = r.poll,
        !.option = {r.option},
        !.total_votes = total_votes(vs, r.poll),
        !.options = serialize_options(options, vs, r.poll)]

\* except Exception of vote_poll: the generic 500.
vote_failure(exc, u, pid, oid) ==
    [JsonFailure EXCEPT
        !.kind = "vote_poll", !.status = 500, !.exc = exc,
        !.user = u, !.poll = pid, !.option = oid]

\* The option looked up by id alone, whatever its poll.
get_option_of_any_poll(os, pid, oid) == { o \in os : o.id = oid }

\* get_object_or_404(PollOption, id=option_id, poll=poll), as the set of
\* the rows found: empty when the lookup raises Http404.
get_option(os, pid, oid) == { o \in os : o.id = oid /\ o.poll = pid }

\* A save() that loses the assignment of the new option.
saved_vote_keeping_option(old, oid, inserted) ==
    [old EXCEPT !.created_at = IF inserted THEN now ELSE old.created_at]

\* A save() that stamps the row on every write (auto_now in place of
\* auto_now_add).
saved_vote_stamping(old, oid, inserted) ==
    [old EXCEPT !.option = oid, !.created_at = now]

\* existing_vote.option = option; existing_vote.save(): the row written.
\* save() writes every field of the object in memory; auto_now_add stamps
\* created_at only when the row is inserted.
saved_vote(old, oid, inserted) ==
    [old EXCEPT !.option = oid,
                !.created_at = IF inserted THEN now ELSE old.created_at]

\* A Vote table without unique_together: the foreign keys alone.
vote_row_ok_without_unique(row, vs) ==
    /\ row.poll \in PollIds(polls)
    /\ row.option \in { o.id : o \in options }

\* A Vote table that lets a user vote in one poll only.
vote_row_ok_unique_user(row, vs) ==
    /\ row.poll \in PollIds(polls)
    /\ row.option \in { o.id : o \in options }
    /\ \A v \in vs : v.id # row.id => v.user # row.user

\* The constraints the database checks on a Vote row: both foreign keys
\* and unique_together (poll, user), the row's own id apart.
vote_row_ok(row, vs) ==
    /\ row.poll \in PollIds(polls)
    /\ row.option \in { o.id : o \in options }
    /\ \A v \in vs : v.id # row.id => ~(v.poll = row.poll /\ v.user = row.user)

\* POST /api/polls/{id}/vote/, first step: the login check, the check of
\* option_id, and the three lookups (poll, option, existing vote).
vote_poll_lookup(t, u, pid, oid) ==
    /\ resp = NoResponse
    /\ req[t].pc = "idle"
    /\ UNCHANGED <<auth, db, now, anon>>
    /\ IF u = Anonymous
       THEN /\ resp' = [Unauthenticated("vote_poll", pid) EXCEPT !.option = oid]
            /\ UNCHANGED req
       ELSE IF oid = {} \/ oid = {0}
       THEN /\ resp' = [JsonFailure EXCEPT
                            !.kind = "vote_poll", !.status = 400,
                            !.user = u, !.poll = pid, !.option = oid]
            /\ UNCHANGED req
       ELSE IF pid \notin PollIds(polls)
               \/ get_option(options, pid, the(oid)) = {}
       THEN \* get_object_or_404 raises Http404 inside the try block
            /\ resp' = vote_failure("Http404", u, pid, oid)
            /\ UNCHANGED req
       ELSE /\ nextVoteId + Cardinality({ x \in Threads : req[x].pc = "write" })
                   <= MaxVotes
            /\ req' = [req EXCEPT ![t] =
                          [pc |-> "write", user |-> u, poll |-> pid,
                           option |-> the(oid),
                           existing |-> first_vote(votes, pid, u)]]
            /\ UNCHANGED resp

\* Second step: existing_vote.save() or Vote.objects.create(), then the
\* response.
vote_poll_write(t) ==
    LET r == req[t]
    IN
    /\ resp = NoResponse
    /\ r.pc = "write"
    /\ req' = [req EXCEPT ![t] = Idle]
    /\ UNCHANGED <<auth, polls, options, nextPollId, nextOptionId, now, anon>>
    /\ IF r.existing # {}
       THEN LET old == the(r.existing)
                \* save() updates the row of this id, and inserts it when
                \* the update matches no row (auto_now_add then stamps it)
                there == \E v \in votes : v.id = old.id
                row == saved_vote(old, r.option, ~there)
            IN  /\ UNCHANGED nextVoteId
                /\ IF vote_row_ok(row, votes)
                   THEN /\ votes' = { v \in votes : v.id # old.id } \cup {row}
                        /\ resp' = vote_response(200, "Vote updated successfully!",
                                                 r, votes')
                   ELSE /\ UNCHANGED votes
                        /\ resp' = vote_failure("IntegrityError", r.user, r.poll,
                                                {r.option})
       ELSE LET row == [id |-> nextVoteId, poll |-> r.poll, option |-> r.option,
                        user |-> r.user, created_at |-> now]
            IN  IF vote_row_ok(row, votes)
                THEN /\ votes' = votes \cup {row}
                     /\ nextVoteId' = nextVoteId + 1
                     /\ resp' = vote_response(200, "Vote submitted successfully!",
                                              r, votes')
                ELSE /\ UNCHANGED <<votes, nextVoteId>>
                     /\ resp' = vote_failure("IntegrityError", r.user, r.poll,
                                             {r.option})


\* except Exception of poll_detail: get_object_or_404 raises Http404, which
\* except Poll.DoesNotExist does not catch.
poll_detail_failure(kind, u, pid) ==
    [JsonFailure EXCEPT !.kind = kind, !.status = 500, !.exc = "Http404",
                       !.user = u, !.poll = pid]

permission_denied(kind, u, pid) ==
    [JsonFailure EXCEPT !.kind = kind, !.status = 403, !.user = u, !.poll = pid]

\* A check of the options that runs after the old options were deleted.
poll_detail_PUT_rejected_after_delete(u, pid, texts) ==
    /\ resp' = [JsonFailure EXCEPT !.texts = texts,
                    !.kind = "poll_detail_PUT", !.status = 400,
                    !.user = u, !.poll = pid]
    /\ options' = { o \in options : o.poll # pid }
    /\ votes' = cascade_votes(votes, OptionsOf(options, pid))
    /\ UNCHANGED <<polls, nextOptionId>>

\* The 400 of poll_detail PUT for fewer than 2 options: it is returned
\* before poll.save() and before the options are deleted.
poll_detail_PUT_rejected(u, pid, texts) ==
    /\ resp' = [JsonFailure EXCEPT !.texts = texts,
                    !.kind = "poll_detail_PUT", !.status = 400,
                    !.user = u, !.poll = pid]
    /\ UNCHANGED <<polls, options, votes, nextOptionId>>

\* PUT /api/polls/{id}/ with body {title?, options?}
poll_detail_PUT(u, pid, title, texts) ==
    /\ resp = NoResponse
    /\ UNCHANGED <<auth, nextPollId, nextVoteId, now, req, anon>>
    /\ IF pid \notin PollIds(polls)
       THEN /\ resp' = [poll_detail_failure("poll_detail_PUT", u, pid)
                            EXCEPT !.texts = texts]
            /\ UNCHANGED <<polls, options, votes, nextOptionId>>
       ELSE IF u = Anonymous \/ PollById(pid).creator # u
       THEN /\ resp' = [permission_denied("poll_detail_PUT", u, pid)
                            EXCEPT !.texts = texts]
            /\ UNCHANGED <<polls, options, votes, nextOptionId>>
       ELSE IF Len(texts) < 2
       THEN poll_detail_PUT_rejected(u, pid, texts)
       ELSE LET poll == PollById(pid)
                gone == OptionsOf(options, pid)
                made == create_options(pid, texts, nextOptionId)
            IN  /\ nextOptionId <= MaxOptions
                /\ polls' = (polls \ {poll}) \cup
                       { [poll EXCEPT !.title = IF title = {} THEN poll.title
                                                ELSE the(title)] }
                \* poll.options.all().delete() cascades to the votes
                /\ options' = { o \in options : o.poll # pid } \cup made
                /\ votes' = cascade_votes(votes, gone)
                /\ nextOptionId' = nextOptionId + Cardinality(made)
                /\ IF strip_raises(texts)
                   THEN \* except Exception, with the saved title, the
                        \* deletion and the rows written so far committed
                        resp' = [JsonFailure EXCEPT !.texts = texts,
                                    !.kind = "poll_detail_PUT", !.status = 500,
                                    !.exc = "AttributeError", !.user = u,
                                    !.poll = pid]
                   ELSE resp' = [JsonFailure EXCEPT !.texts = texts,
                                    !.kind = "poll_detail_PUT", !.status = 200,
                                    !.success = TRUE, !.flag = {TRUE}, !.user = u, !.poll = pid,
                                    !.total_votes = total_votes(votes', pid),
                                    !.options = serialize_options(options',
                                                    votes', pid)]

\* DELETE /api/polls/{id}/
poll_detail_DELETE(u, pid) ==
    /\ resp = NoResponse
    /\ UNCHANGED <<auth, nextPollId, nextOptionId, nextVoteId, now, req, anon>>
    /\ IF pid \notin PollIds(polls)
       THEN /\ resp' = poll_detail_failure("poll_detail_DELETE", u, pid)
            /\ UNCHANGED <<polls, options, votes>>
       ELSE IF u = Anonymous \/ PollById(pid).creator # u
       THEN /\ resp' = permission_denied("poll_detail_DELETE", u, pid)
            /\ UNCHANGED <<polls, options, votes>>
       ELSE \* poll.delete() cascades to the options and the votes
            /\ polls' = { p \in polls : p.id # pid }
            /\ options' = { o \in options : o.poll # pid }
            /\ votes' = { v \in cascade_votes(votes, OptionsOf(options, pid)) :
                            v.poll # pid }
            /\ resp' = [JsonFailure EXCEPT
                            !.kind = "poll_detail_DELETE", !.status = 200,
                            !.success = TRUE, !.flag = {TRUE}, !.user = u, !.poll = pid]

\* A results handler that closes the poll it reports on.
poll_results_deactivating(u, pid) ==
    /\ resp = NoResponse
    /\ UNCHANGED <<auth, options, votes, nextPollId, nextOptionId, nextVoteId, now,
                   req, anon>>
    /\ polls' = { [p EXCEPT !.is_active = (p.id # pid /\ p.is_active)] :
                    p \in polls }
    /\ resp' = [JsonFailure EXCEPT
                    !.kind = "poll_results",
                    !.status = IF pid \in PollIds(polls) THEN 200 ELSE 500,
                    !.success = (pid \in PollIds(polls)),
                    !.flag = {pid \in PollIds(polls)},
                    !.user = u, !.poll = pid,
                    !.total_votes = total_votes(votes, pid),
                    !.options = options_with_votes(options, votes, pid),
                    !.user_vote = user_vote(votes, pid, u)]

\* GET /api/polls/{id}/results/
poll_results(u, pid) ==
    /\ resp = NoResponse
    /\ UNCHANGED <<auth, db, now, req, anon>>
    /\ IF pid \notin PollIds(polls)
       THEN resp' = [JsonFailure EXCEPT
                        !.kind = "poll_results", !.status = 500,
                        !.exc = "Http404", !.user = u, !.poll = pid]
       ELSE LET rows == options_with_votes(options, votes, pid)
            IN  IF \E i \in 1 .. Len(rows) : rows[i].percentage = ZeroDivisionError
                THEN resp' = [JsonFailure EXCEPT
                                !.kind = "poll_results", !.status = 500,
                                !.exc = "ZeroDivisionError", !.user = u,
                                !.poll = pid]
                ELSE resp' = [JsonFailure EXCEPT
                                !.kind = "poll_results", !.status = 200,
                                !.success = TRUE, !.flag = {TRUE}, !.user = u, !.poll = pid,
                                !.total_votes = total_votes(votes, pid),
                                !.options = rows,
                                !.user_vote = user_vote(votes, pid, u)]

\* Time passes.
Tick ==
    /\ resp = NoResponse
    /\ now < MaxTime
    /\ now' = now + 1
    /\ UNCHANGED <<auth, db, req, resp, anon>>

\* The response leaves the server; the next request is taken up.
send_response ==
    /\ resp # NoResponse
    /\ resp' = NoResponse
    /\ UNCHANGED <<auth, db, now, req, anon>>

\* ------------------------------------------------- poll_system: requests

Clients == Users \cup {Anonymous}
RequestedPolls == 1 .. MaxPolls
RequestedOptions == { {} } \cup { {o} : o \in 1 .. MaxOptions + 1 }
Titles == {"", "Lunch?"}
\* An expiry at MaxTime never lapses within the clock's range.
Expiries == { {} } \cup { {t} : t \in 0 .. MaxTime - 1 }

\* Requests of every kind on every poll, one vote request in flight at a
\* time, the clock standing still.
Next ==
    \/ \E u \in Clients, title \in Titles, texts \in OptionLists :
          create_poll(u, title, texts, {})
    \/ \E u \in Clients, pid \in RequestedPolls, oid \in RequestedOptions :
          vote_poll_lookup("t1", u, pid, oid)
    \/ vote_poll_write("t1")
    \/ \E u \in Clients, pid \in RequestedPolls, texts \in OptionLists :
          poll_detail_PUT(u, pid, {}, texts)
    \/ \E u \in Clients, pid \in RequestedPolls : poll_detail_DELETE(u, pid)
    \/ \E u \in Clients, pid \in RequestedPolls : poll_results(u, pid)
    \/ send_response

Spec == Init /\ [][Next]_vars

\* Vote requests of the same users racing on two threads.
NextRace ==
    \/ \E texts \in OptionLists : create_poll("alice", "Lunch?", texts, {})
    \/ \E t \in Threads, u \in Users, oid \in RequestedOptions :
          vote_poll_lookup(t, u, 1, oid)
    \/ \E t \in Threads : vote_poll_write(t)
    \/ \E u \in Users : poll_results(u, 1)
    \/ send_response

SpecRace == Init /\ [][NextRace]_vars

\* Polls with an expiry, and the clock running.
NextClock ==
    \/ \E e \in Expiries : create_poll("alice", "Lunch?", <<"Pizza", "Sushi">>, e)
    \/ \E u \in Users, oid \in RequestedOptions :
          vote_poll_lookup("t1", u, 1, oid)
    \/ vote_poll_write("t1")
    \/ \E u \in Users : poll_results(u, 1)
    \/ Tick
    \/ send_response

SpecClock == Init /\ [][NextClock]_vars

\* ------------------------------------------------------------------ polls
\* The app polls: anonymous voters, known by (IP address, session key).

Ips == {"10.0.0.1", "10.0.0.2"}
Sessions == {"s1", "s2"}

\* len() of the titles and option texts of the model, for the serializer's
\* length validators.
length(s) ==
    CASE s = "" -> 0
      [] s = " " -> 1
      [] s = "Poll" -> 4
      [] s = "Lunch?" -> 6
      [] s = "Dinner?" -> 7
      [] OTHER -> 5

AnonPollIds == { p.id : p \in anonPolls }
AnonPollById(id) == CHOOSE p \in anonPolls : p.id = id

\* Vote.poll: self.option.poll
vote_poll_of(os, v) == (CHOOSE o \in os : o.id = v.option).poll

\* Vote.objects.filter(option__poll=poll).count(), Poll.total_votes of polls
anon_total_votes(os, vs, pid) ==
    Cardinality({ v \in vs : \E o \in os : o.id = v.option /\ o.poll = pid })

\* The rows by id alone, whatever their order field.
RECURSIVE ordered_by_id(_)
ordered_by_id(S) ==
    IF S = {} THEN <<>>
    ELSE LET m == CHOOSE x \in S : \A y \in S : x.id <= y.id
         IN  <<m>> \o ordered_by_id(S \ {m})

\* poll.options.all() under Meta.ordering = ['order', 'id']
RECURSIVE ordered_options(_)
ordered_options(S) ==
    IF S = {} THEN <<>>
    ELSE LET m == CHOOSE x \in S : \A y \in S :
                      x.order < y.order \/ (x.order = y.order /\ x.id <= y.id)
         IN  <<m>> \o ordered_options(S \ {m})

\* The 'results' list of polls.views.poll_results: the percentage is not
\* rounded.
anon_results(os, vs, pid) ==
    LET rows == ordered_options({ o \in os : o.poll = pid })
        total == anon_total_votes(os, vs, pid)
    IN  [i \in 1 .. Len(rows) |->
            [id |-> rows[i].id, text |-> rows[i].text,
             vote_count |-> vote_count(vs, rows[i].id),
             percentage |-> IF total > 0
                            THEN [n |-> vote_count(vs, rows[i].id) * 100,
                                  d |-> total]
                            ELSE [n |-> 0, d |-> 1]]]

\* Poll.get_results of polls: round(percentage, 2)
get_results(os, vs, pid) ==
    LET rows == ordered_options({ o \in os : o.poll = pid })
        total == anon_total_votes(os, vs, pid)
    IN  [i \in 1 .. Len(rows) |->
            [id |-> rows[i].id, text |-> rows[i].text,
             vote_count |-> vote_count(vs, rows[i].id),
             percentage |-> IF total > 0
                            THEN round([n |-> vote_count(vs, rows[i].id) * 100,
                                        d |-> total], 100)
                            ELSE [n |-> 0, d |-> 100]]]

\* PollCreateSerializer.is_valid(): the title's MinLengthValidator, the
\* ListField of CharFields (whitespace trimmed, blank refused), and
\* validate_options and validate_expires_at.
PollCreateSerializer_is_valid(title, texts, expires_at) ==
    /\ length(strip(title)) >= 5
    /\ Len(texts) >= 2
    /\ Len(texts) <= 10
    /\ \A i \in 1 .. Len(texts) : texts[i] # JsonNull
    /\ \A i \in 1 .. Len(texts) : length(strip(texts[i])) >= 2
    /\ Cardinality({ strip(texts[i]) : i \in 1 .. Len(texts) }) = Len(texts)
    /\ expires_at # {} => ~(the(expires_at) <= now)

\* PollCreateSerializer.create: the Option rows, order = index.
PollCreateSerializer_options(pid, texts, next) ==
    { [id |-> next + i - 1, poll |-> pid, text |-> strip(texts[i]),
       order |-> i - 1] : i \in 1 .. Len(texts) }

\* POST /api/polls/create/ of polls
PollCreateView_create(title, texts, expires_at) ==
    /\ resp = NoResponse
    /\ UNCHANGED <<auth, db, now, req, anonVotes, anonNextVoteId>>
    /\ IF ~PollCreateSerializer_is_valid(title, texts, expires_at)
       THEN /\ resp' = [NoResponse EXCEPT !.title = title, !.texts = texts,
                                    !.expires_at = expires_at, !.kind = "PollCreateView",
                                          !.status = 400]
            /\ UNCHANGED <<anonPolls, anonOptions, anonNextPollId,
                           anonNextOptionId>>
       ELSE /\ anonNextPollId <= MaxPolls
            /\ anonNextOptionId <= MaxOptions
            /\ anonPolls' = anonPolls \cup
                   \* created_by is not set by the serializer: NULL
                   { [id |-> anonNextPollId, title |-> strip(title),
                      is_active |-> TRUE, expires_at |-> expires_at,
                      created_by |-> {}] }
            /\ anonOptions' = anonOptions \cup
                   PollCreateSerializer_options(anonNextPollId, texts,
                                                anonNextOptionId)
            /\ anonNextPollId' = anonNextPollId + 1
            /\ anonNextOptionId' = anonNextOptionId + Len(texts)
            /\ resp' = [NoResponse EXCEPT !.title = title, !.texts = texts,
                                    !.expires_at = expires_at,
                            !.kind = "PollCreateView", !.status = 201,
                            !.success = TRUE, !.poll = anonNextPollId]

\* VoteSerializer.is_valid(): the option exists (PrimaryKeyRelatedField)
\* and validate_option accepts its poll.
VoteSerializer_is_valid(oid) ==
    /\ oid # {}
    /\ \E o \in anonOptions :
          /\ o.id = the(oid)
          /\ AnonPollById(o.poll).is_active
          /\ ~is_expired(AnonPollById(o.poll))

\* unique_together = ['option', 'voter_ip', 'voter_session']
anon_vote_row_ok(row, vs) ==
    \A v \in vs : ~(v.option = row.option /\ v.voter_ip = row.voter_ip
                    /\ v.voter_session = row.voter_session)

\* POST /api/polls/{pk}/vote/ of polls, body {option}; pk is not read.  A
\* request without a session is given a new session key.
VoteCreateView_post(pk, ip, session, oid) ==
    /\ resp = NoResponse
    /\ UNCHANGED <<auth, db, now, req, anonPolls, anonOptions, anonNextPollId,
                   anonNextOptionId>>
    /\ IF ~VoteSerializer_is_valid(oid)
       THEN /\ resp' = [NoResponse EXCEPT !.kind = "VoteCreateView",
                                          !.status = 400, !.poll = pk,
                                          !.option = oid, !.voter_ip = ip]
            /\ UNCHANGED <<anonVotes, anonNextVoteId>>
       ELSE \E key \in Sessions :
            /\ IF session # {} THEN key = the(session)
               ELSE \A v \in anonVotes : v.voter_session # key
            /\ LET row == [id |-> anonNextVoteId, option |-> the(oid),
                           voter_ip |-> ip, voter_session |-> key,
                           voted_at |-> now]
               IN  IF anon_vote_row_ok(row, anonVotes)
                   THEN /\ anonNextVoteId <= MaxVotes
                        /\ anonVotes' = anonVotes \cup {row}
                        /\ anonNextVoteId' = anonNextVoteId + 1
                        /\ resp' = [NoResponse EXCEPT
                                        !.kind = "VoteCreateView",
                                        !.status = 201, !.success = TRUE,
                                        !.poll = pk, !.option = oid,
                                        !.voter_ip = ip,
                                        !.voter_session = key]
                   ELSE /\ UNCHANGED <<anonVotes, anonNextVoteId>>
                        /\ resp' = [NoResponse EXCEPT
                                        !.kind = "VoteCreateView",
                                        !.status = 400,
                                        !.exc = "IntegrityError",
                                        !.poll = pk, !.option = oid,
                                        !.voter_ip = ip,
                                        !.voter_session = key]

\* GET /api/polls/{pk}/results/ of polls
polls_poll_results(pk) ==
    /\ resp = NoResponse
    /\ UNCHANGED <<auth, db, now, req, anon>>
    /\ IF pk \notin AnonPollIds
       THEN resp' = [NoResponse EXCEPT !.kind = "polls_poll_results",
                                       !.status = 404, !.exc = "Http404",
                                       !.poll = pk]
       ELSE resp' = [NoResponse EXCEPT
                        !.kind = "polls_poll_results", !.status = 200,
                        !.success = TRUE, !.poll = pk,
                        !.total_votes = anon_total_votes(anonOptions,
                                                         anonVotes, pk),
                        !.options = anon_results(anonOptions, anonVotes, pk)]

\* GET /api/polls/{pk}/?include_results=true of polls
PollDetailView_retrieve(pk) ==
    /\ resp = NoResponse
    /\ UNCHANGED <<auth, db, now, req, anon>>
    /\ IF pk \notin AnonPollIds
       THEN resp' = [NoResponse EXCEPT !.kind = "PollDetailView_retrieve",
                                       !.status = 404, !.exc = "Http404",
                                       !.poll = pk]
       ELSE resp' = [NoResponse EXCEPT
                        !.kind = "PollDetailView_retrieve", !.status = 200,
                        !.success = TRUE, !.poll = pk,
                        !.total_votes = anon_total_votes(anonOptions,
                                                         anonVotes, pk),
                        !.options = get_results(anonOptions, anonVotes, pk)]

\* PATCH /api/polls/{pk}/ of polls with body {is_active}: any client may.
PollDetailView_update(pk, is_active) ==
    /\ resp = NoResponse
    /\ UNCHANGED <<auth, db, now, req, anonOptions, anonVotes, anonNextPollId,
                   anonNextOptionId, anonNextVoteId>>
    /\ IF pk \notin AnonPollIds
       THEN /\ resp' = [NoResponse EXCEPT !.kind = "PollDetailView_update",
                                          !.status = 404, !.exc = "Http404",
                                          !.poll = pk]
            /\ UNCHANGED anonPolls
       ELSE /\ anonPolls' = (anonPolls \ {AnonPollById(pk)}) \cup
                   { [AnonPollById(pk) EXCEPT !.is_active = is_active] }
            /\ resp' = [NoResponse EXCEPT
                            !.kind = "PollDetailView_update", !.status = 200,
                            !.success = TRUE, !.poll = pk]

\* DELETE /api/polls/{pk}/ of polls: any client may; the delete cascades.
PollDetailView_destroy(pk) ==
    /\ resp = NoResponse
    /\ UNCHANGED <<auth, db, now, req, anonNextPollId, anonNextOptionId,
                   anonNextVoteId>>
    /\ IF pk \notin AnonPollIds
       THEN /\ resp' = [NoResponse EXCEPT !.kind = "PollDetailView_destroy",
                                          !.status = 404, !.exc = "Http404",
                                          !.poll = pk]
            /\ UNCHANGED <<anonPolls, anonOptions, anonVotes>>
       ELSE /\ anonPolls' = { p \in anonPolls : p.id # pk }
            /\ anonOptions' = { o \in anonOptions : o.poll # pk }
            /\ anonVotes' = cascade_votes(anonVotes,
                                          { o.id : o \in { x \in anonOptions :
                                                            x.poll = pk } })
            /\ resp' = [NoResponse EXCEPT
                            !.kind = "PollDetailView_destroy", !.status = 204,
                            !.success = TRUE, !.poll = pk]

NextAnon ==
    \/ \E title \in {"Poll", "Lunch?"},
          texts \in OptionLists \cup { <<"Pizza", " ">>, <<"Pizza", "Pizza">> },
          e \in Expiries : PollCreateView_create(title, texts, e)
    \/ \E pk \in RequestedPolls, ip \in Ips, session \in { {} } \cup
                                             { {k} : k \in Sessions },
          oid \in RequestedOptions : VoteCreateView_post(pk, ip, session, oid)
    \/ \E pk \in RequestedPolls : polls_poll_results(pk)
    \/ \E pk \in RequestedPolls : PollDetailView_retrieve(pk)
    \/ \E pk \in RequestedPolls, a \in BOOLEAN : PollDetailView_update(pk, a)
    \/ \E pk \in RequestedPolls : PollDetailView_destroy(pk)
    \/ send_response

SpecAnon == Init /\ [][NextAnon]_vars

\* Poll creation and option-replacing edits in both apps, with option
\* lists at the limits of the count and with odd entries.
NextCreate ==
    \/ \E u \in Clients, title \in Titles,
          texts \in BoundaryLists \cup OddLists :
          create_poll(u, title, texts, {})
    \/ \E u \in Clients, title \in { {} } \cup { {"Dinner?"} },
          texts \in BoundaryLists \cup OddLists :
          poll_detail_PUT(u, 1, title, texts)
    \/ \E title \in {"Poll", "Lunch?"}, texts \in BoundaryLists \cup OddLists :
          PollCreateView_create(title, texts, {})
    \/ send_response

SpecCreate == Init /\ [][NextCreate]_vars

\* ----------------------------------------------------------- registration
\* Both apps register into the table of django.contrib.auth.models.User:
\* username is unique (compared as written), email is not.

Usernames == {"alice", "Alice", "bob"}
Emails == {"a@x.org", "A@x.org", "b@x.org"}
\* A password is missing, refused by validate_password, or accepted.
Passwords == {"", "12345678", "c0rrect-horse"}

\* str.lower(), as the __iexact lookups compare.
lower(s) ==
    CASE s = "Alice" -> "alice"
      [] s = "A@x.org" -> "a@x.org"
      [] OTHER -> s

\* validate_password under AUTH_PASSWORD_VALIDATORS
validate_password(password) == password # "12345678"

register_response(kind, status, username, email) ==
    [JsonFailure EXCEPT !.kind = kind, !.status = status,
                        !.username = username, !.email = email]

\* The last check of a registration passed: the request goes on to
\* create_user.
to_create_user(t, kind, username, email) ==
    /\ nextUserId + Cardinality({ x \in Threads : reg[x].pc = "create" })
          <= MaxUsers
    /\ reg' = [reg EXCEPT ![t] = [pc |-> "create", kind |-> kind,
                                  username |-> username, email |-> email]]
    /\ UNCHANGED resp

\* POST /accounts/register/ of poll_system, up to create_user: the checks
\* of the fields, of an existing username and email (both __iexact), and
\* of the password.
api_register_check(t, username, email, password) ==
    /\ resp = NoResponse
    /\ reg[t].pc = "idle"
    /\ UNCHANGED <<db, now, req, anon, users, nextUserId>>
    /\ IF username = "" \/ email = "" \/ password = ""
          \/ (\E u \in users : lower(u.username) = lower(username))
          \/ (\E u \in users : lower(u.email) = lower(email))
          \/ ~validate_password(password)
       THEN /\ resp' = register_response("api_register", 400, username, email)
            /\ UNCHANGED reg
       ELSE to_create_user(t, "api_register", username, email)

\* POST /signup/ of polls, up to create_user: the checks of the fields, of
\* confirm_password, and of an existing username and email (both exact).
signup_view_check(t, username, email, password, confirm_password) ==
    /\ resp = NoResponse
    /\ reg[t].pc = "idle"
    /\ UNCHANGED <<db, now, req, anon, users, nextUserId>>
    /\ IF username = "" \/ email = "" \/ password = ""
          \/ password # confirm_password
          \/ (\E u \in users : u.username = username)
          \/ (\E u \in users : u.email = email)
       THEN /\ resp' = register_response("signup_view", 400, username, email)
            /\ UNCHANGED reg
       ELSE to_create_user(t, "signup_view", username, email)

\* The constraint the database checks on a User row: username unique.
user_row_ok(row, us) == \A u \in us : u.username # row.username

\* User.objects.create_user(...) and the response, of either view; an
\* IntegrityError ends in except Exception.
create_user(t) ==
    LET r == reg[t]
        row == [id |-> nextUserId, username |-> r.username, email |-> r.email]
    IN
    /\ resp = NoResponse
    /\ r.pc = "create"
    /\ reg' = [reg EXCEPT ![t] = NotRegistering]
    /\ UNCHANGED <<db, now, req, anon>>
    /\ IF user_row_ok(row, users)
       THEN /\ users' = users \cup {row}
            /\ nextUserId' = nextUserId + 1
            /\ resp' = [register_response(r.kind, 200, r.username, r.email)
                            EXCEPT !.success = TRUE, !.flag = {TRUE}]
       ELSE /\ UNCHANGED <<users, nextUserId>>
            /\ resp' = [register_response(r.kind, 500, r.username, r.email)
                            EXCEPT !.exc = "IntegrityError"]

\* Registration requests through both views, on two threads.
NextRegister ==
    \/ \E t \in Threads, username \in Usernames \cup {""}, email \in Emails,
          password \in Passwords :
          api_register_check(t, username, email, password)
    \/ \E t \in Threads, username \in Usernames \cup {""}, email \in Emails,
          password \in Passwords \ {""}, confirm_password \in Passwords \ {""} :
          signup_view_check(t, username, email, password, confirm_password)
    \/ \E t \in Threads : create_user(t)
    \/ send_response

SpecRegister == Init /\ [][NextRegister]_vars

\* ------------------------------------------------------------- statistics

\* The literal 0 of a conditional expression's else branch.
Zero == [n |-> 0, d |-> 1]

\* The division of a rate without its guard.
rate_unguarded(count, total, times, scale) ==
    IF total = 0 THEN ZeroDivisionError
    ELSE round([n |-> count * times, d |-> total], scale)

\* round(count / total * times, digits) if total > 0 else 0, with
\* scale = 10^digits
rate(count, total, times, scale) ==
    IF total > 0 THEN round([n |-> count * times, d |-> total], scale)
    ELSE Zero

\* A count of the votes in place of the polls that have one.
polls_with_votes_counting_votes(ps, vs) == Cardinality(vs)

\* Poll.objects.annotate(vote_count=Count('votes'))
\*     .filter(vote_count__gt=0).count()
polls_with_votes(ps, vs) ==
    Cardinality({ p \in ps : \E v \in vs : v.poll = p.id })

\* min(100, value) of a rate
min100(pct) == IF pct.d # 0 /\ pct.n > 100 * pct.d THEN [n |-> 100, d |-> 1]
               ELSE pct

\* GET /api/statistics/detailed/ of poll_system
detailed_statistics ==
    LET total_polls == Cardinality(polls)
        total_votes_ == Cardinality(votes)
        total_users == Cardinality(users)
        users_who_voted == Cardinality({ v.user : v \in votes })
        completion_rate == rate(polls_with_votes(polls, votes), total_polls,
                                100, 100)
        avg_votes_per_poll == rate(total_votes_, total_polls, 1, 100)
        engagement_rate == rate(users_who_voted, total_users, 100, 100)
    IN
    /\ resp = NoResponse
    /\ UNCHANGED <<db, now, req, anon, auth>>
    /\ IF ZeroDivisionError \in {completion_rate, avg_votes_per_poll,
                                 engagement_rate}
       THEN \* except Exception: {'error': ...}
            resp' = [NoResponse EXCEPT !.kind = "detailed_statistics",
                                       !.status = 500,
                                       !.exc = "ZeroDivisionError"]
       ELSE resp' = [NoResponse EXCEPT !.kind = "detailed_statistics",
                                       !.status = 200, !.success = TRUE,
                                       !.completionRate = completion_rate,
                                       !.avgVotesPerPoll = avg_votes_per_poll,
                                       !.engagementRate = engagement_rate]

\* The slice [:10] of top_polls and [:6] of analytics_top_polls.
TopPollsLimit == 10
AnalyticsTopPollsLimit == 6

\* seq[:limit]
truncate(seq, limit) == SubSeq(seq, 1, IF Len(seq) < limit THEN Len(seq) ELSE limit)

\* The orders in which .order_by('-vote_count') may return the rows S: the
\* database orders rows of equal vote_count as it likes.
ordered_by_vote_count(S) ==
    { seq \in [1 .. Cardinality(S) -> S] :
        /\ \A i, j \in 1 .. Cardinality(S) : seq[i] = seq[j] => i = j
        /\ \A i, j \in 1 .. Cardinality(S) :
              i < j => seq[i].vote_count >= seq[j].vote_count }

\* list.sort(key=lambda x: x['vote_count'], reverse=True): a stable sort.
RECURSIVE sort_by_vote_count(_)
sort_by_vote_count(seq) ==
    IF seq = <<>> THEN <<>>
    ELSE LET top == CHOOSE i \in 1 .. Len(seq) :
                      /\ \A j \in 1 .. Len(seq) :
                            seq[j].vote_count <= seq[i].vote_count
                      /\ \A j \in 1 .. i - 1 :
                            seq[j].vote_count < seq[i].vote_count
         IN  <<seq[top]>> \o
             sort_by_vote_count(SubSeq(seq, 1, top - 1)
                                \o SubSeq(seq, top + 1, Len(seq)))

\* The elements of a finite set of integers in descending order: the rows
\* of Poll.objects.all() under Meta.ordering = ['-created_at'], as ids.
RECURSIVE Descending(_)
Descending(S) ==
    IF S = {} THEN <<>>
    ELSE LET m == CHOOSE x \in S : \A y \in S : x >= y
         IN  <<m>> \o Descending(S \ {m})

\* GET /api/statistics/top-polls/ of poll_system
top_polls ==
    LET total_possible_votes == Cardinality(users)
        annotated == { [id |-> p.id, title |-> p.title,
                        vote_count |-> total_votes(votes, p.id),
                        participation_rate |->
                            rate(total_votes(votes, p.id),
                                 total_possible_votes, 100, 100)] :
                       p \in { q \in polls : total_votes(votes, q.id) > 0 } }
    IN
    /\ resp = NoResponse
    /\ UNCHANGED <<db, now, req, anon, auth>>
    /\ IF \E row \in annotated : row.participation_rate = ZeroDivisionError
       THEN resp' = [NoResponse EXCEPT !.kind = "top_polls", !.status = 500,
                                       !.exc = "ZeroDivisionError"]
       ELSE \E seq \in ordered_by_vote_count(annotated) :
               resp' = [NoResponse EXCEPT
                           !.kind = "top_polls", !.status = 200,
                           !.success = TRUE,
                           !.topPolls = truncate(seq, TopPollsLimit)]

\* GET /api/statistics/ of poll_system: the dashboard numbers of the user.
api_statistics(u) ==
    LET user_polls == { p \in polls : p.creator = u }
        total_polls == Cardinality(user_polls)
        total_votes_ == Cardinality({ v \in votes :
                                       v.poll \in PollIds(user_polls) })
        avg_participation ==
            IF total_polls > 0 /\ total_votes_ > 0
            THEN min100(round([n |-> total_votes_ * 10, d |-> total_polls], 1))
            ELSE Zero
    IN
    /\ resp = NoResponse
    /\ UNCHANGED <<db, now, req, anon, auth>>
    /\ IF u = Anonymous
       THEN resp' = [NoResponse EXCEPT !.kind = "api_statistics",
                                       !.status = 200, !.success = TRUE]
       ELSE resp' = [NoResponse EXCEPT !.kind = "api_statistics",
                                       !.status = 200, !.success = TRUE,
                                       !.flag = {TRUE}, !.user = u,
                                       !.total_votes = total_votes_,
                                       !.avgParticipation = avg_participation]

\* GET /api/statistics/detailed/ of polls.  The Poll of polls has no field
\* category: Poll.objects.values('category') raises FieldError before the
\* response data is computed, and except Exception answers 500.
analytics_detailed ==
    /\ resp = NoResponse
    /\ UNCHANGED <<db, now, req, anon, auth>>
    /\ resp' = [NoResponse EXCEPT !.kind = "analytics_detailed",
                                  !.status = 500, !.exc = "FieldError"]

\* GET /api/statistics/top-polls/ of polls
analytics_top_polls ==
    LET ids == Descending(AnonPollIds)
        rows == [i \in 1 .. Len(ids) |->
                    LET vote_count_ == anon_total_votes(anonOptions, anonVotes,
                                                        ids[i])
                    IN  [id |-> ids[i], title |-> AnonPollById(ids[i]).title,
                         vote_count |-> vote_count_,
                         participation_rate |->
                            min100(IF vote_count_ > 0
                                   THEN round([n |-> vote_count_ * 100,
                                               d |-> 50], 1)
                                   ELSE Zero)]]
    IN
    /\ resp = NoResponse
    /\ UNCHANGED <<db, now, req, anon, auth>>
    /\ resp' = [NoResponse EXCEPT
                   !.kind = "analytics_top_polls", !.status = 200,
                   !.success = TRUE,
                   !.topPolls = truncate(sort_by_vote_count(rows),
                                         AnalyticsTopPollsLimit)]

\* The users that have registered, as request.user.
Registered == { u.username : u \in users }

\* Registration, polls and votes of the registered users, and the
\* statistics endpoints of poll_system.
NextStats ==
    \/ \E username \in {"alice", "bob"}, email \in {"a@x.org", "b@x.org"} :
          api_register_check("t1", username, email, "c0rrect-horse")
    \/ create_user("t1")
    \/ \E u \in Registered :
          create_poll(u, "Lunch?", <<"Pizza", "Sushi">>, {})
    \/ \E u \in Registered, pid \in RequestedPolls, oid \in RequestedOptions :
          vote_poll_lookup("t1", u, pid, oid)
    \/ vote_poll_write("t1")
    \/ detailed_statistics
    \/ top_polls
    \/ \E u \in Registered \cup {Anonymous} : api_statistics(u)
    \/ send_response

SpecStats == Init /\ [][NextStats]_vars

\* Polls and votes of anonymous voters, and the statistics endpoints of
\* polls.
NextAnonStats ==
    \/ PollCreateView_create("Lunch?", <<"Pizza", "Sushi">>, {})
    \/ \E pk \in RequestedPolls, ip \in Ips, session \in { {k} : k \in Sessions },
          oid \in RequestedOptions : VoteCreateView_post(pk, ip, session, oid)
    \/ analytics_detailed
    \/ analytics_top_polls
    \/ send_response

SpecAnonStats == Init /\ [][NextAnonStats]_vars

\* ------------------------------------------------- results of stored polls
\* Poll.get_results on tables as the admin site (polls/admin.py) or the
\* ORM can fill them: options whose order field is set by hand, in any
\* relation to their ids, and any votes on them.

IpIndex(ip) == IF ip = "10.0.0.1" THEN 1 ELSE 2

\* Poll 1 with any of the options 1..MaxOptions in any order, poll 2 with
\* the option MaxOptions + 1, and any set of votes on them.
InitResults ==
    /\ polls = {}
    /\ options = {}
    /\ votes = {}
    /\ nextPollId = 1
    /\ nextOptionId = 1
    /\ nextVoteId = 1
    /\ now = 0
    /\ req = [t \in Threads |-> Idle]
    /\ resp = NoResponse
    /\ users = {}
    /\ nextUserId = 1
    /\ reg = [t \in Threads |-> NotRegistering]
    /\ anonPolls = { [id |-> pk, title |-> "Lunch?", is_active |-> TRUE,
                      expires_at |-> {}, created_by |-> {}] : pk \in {1, 2} }
    /\ anonNextPollId = 3
    /\ anonNextOptionId = MaxOptions + 2
    /\ anonNextVoteId = (MaxOptions + 1) * Cardinality(Ips) + 1
    /\ \E ids \in SUBSET (1 .. MaxOptions) :
       \E order \in [ids -> 0 .. MaxOrder] :
       \E cast \in SUBSET ((ids \cup {MaxOptions + 1}) \X Ips) :
          /\ anonOptions =
                { [id |-> i, poll |-> 1, text |-> TenOptions[i],
                   order |-> order[i]] : i \in ids }
                \cup { [id |-> MaxOptions + 1, poll |-> 2,
                        text |-> TenOptions[1], order |-> 0] }
          /\ anonVotes =
                { [id |-> (c[1] - 1) * Cardinality(Ips) + IpIndex(c[2]),
                   option |-> c[1], voter_ip |-> c[2],
                   voter_session |-> "s1", voted_at |-> 0] : c \in cast }

NextResults ==
    \/ \E pk \in {1, 2} : PollDetailView_retrieve(pk)
    \/ send_response

SpecResults == InitResults /\ [][NextResults]_vars

\* Requests with a missing title, with too few and too many options and
\* without option_id, among requests that write.
NextValidation ==
    \/ \E u \in Users, title \in Titles, texts \in BoundaryLists \cup { <<>> } :
          create_poll(u, title, texts, {})
    \/ \E u \in Users, pid \in RequestedPolls, oid \in RequestedOptions :
          vote_poll_lookup("t1", u, pid, oid)
    \/ vote_poll_write("t1")
    \/ \E u \in Users, pid \in RequestedPolls, title \in { {}, {"Dinner?"} },
          texts \in BoundaryLists \cup { <<>> } :
          poll_detail_PUT(u, pid, title, texts)
    \/ \E u \in Users, pid \in RequestedPolls : poll_detail_DELETE(u, pid)
    \/ send_response

SpecValidation == Init /\ [][NextValidation]_vars

\* ----------------------------------------------------------------- claims

\* C1: when vote requests for the same (poll, voter) race, every request
\* that finishes its write leaves exactly one Vote row for that (poll,
\* voter): never zero, never two.
C1_ExactlyOneVoteAfterRace ==
    [][\A t \in Threads :
          (req[t].pc = "write" /\ req'[t].pc = "idle") =>
              Cardinality({ v \in votes' : v.poll = req[t].poll
                                           /\ v.user = req[t].user }) = 1]_vars

\* Two requests of one voter raced past the lookup, both have finished, the
\* second on the constraint, and one row is there.
C1_Witness ==
    /\ resp.kind = "vote_poll"
    /\ resp.exc = "IntegrityError"
    /\ \A t \in Threads : req[t].pc = "idle"
    /\ Cardinality({ v \in votes : v.poll = resp.poll /\ v.user = resp.user }) = 1

\* C2: at most one Vote per (poll, voter identity): per (poll, user) in
\* poll_system, per (poll, IP address, session key) in polls.
C2_OneVotePerPollAndVoter ==
    /\ \A v, w \in votes : (v.poll = w.poll /\ v.user = w.user) => v = w
    /\ \A v, w \in anonVotes :
          ( /\ vote_poll_of(anonOptions, v) = vote_poll_of(anonOptions, w)
            /\ v.voter_ip = w.voter_ip
            /\ v.voter_session = w.voter_session ) => v = w

\* C3: a uniqueness violation between the existence check and the insert is
\* handled as a vote conflict; no vote request ends as a generic 500.
C3_ConflictHandled ==
    (resp.kind = "vote_poll" /\ resp.exc = "IntegrityError")
        => resp.status \in {200, 400, 409}

\* C4: a vote request that finds its poll inactive or expired is rejected:
\* it goes on to write a Vote only when the poll is active and has not
\* expired at that moment.
C4_NoVoteOnClosedPoll ==
    [][\A t \in Threads :
          (req[t].pc = "idle" /\ req'[t].pc = "write") =>
              \E p \in polls : /\ p.id = req'[t].poll
                                /\ p.is_active
                                /\ ~is_expired(p)]_vars

\* C5: every Vote's option is an option of that Vote's poll.
C5_OptionBelongsToPoll ==
    \A v \in votes : \E o \in options : o.id = v.option /\ o.poll = v.poll

\* A re-vote has overwritten the option of a vote while another poll has
\* options of its own.
C5_Witness ==
    /\ resp.kind = "vote_poll"
    /\ resp.message = "Vote updated successfully!"
    /\ \E v \in votes : v.poll = resp.poll /\ v.option \in resp.option
    /\ \E o \in options : o.poll # resp.poll

\* C6: an authenticated vote request on an existing poll without option_id,
\* or with an option_id that names no option of the poll, is answered with
\* 400.
C6_BadOptionIs400 ==
    ( /\ resp.kind = "vote_poll"
      /\ resp.user \in Users
      /\ resp.poll \in PollIds(polls)
      /\ resp.exc # "IntegrityError"
      /\ \/ resp.option = {}
         \/ \E oid \in resp.option : oid \notin OptionsOf(options, resp.poll) )
        => resp.status = 400

\* C7: the total reported for a poll (results, poll serialization) is the
\* number of Vote rows that reference the poll.
C7_TotalIsRowCount ==
    /\ (resp.kind \in {"poll_results", "vote_poll", "poll_detail_PUT"}
           /\ resp.success)
          => resp.total_votes = Cardinality({ v \in votes : v.poll = resp.poll })
    /\ (resp.kind \in {"polls_poll_results", "PollDetailView_retrieve"}
           /\ resp.success)
          => resp.total_votes =
                Cardinality({ v \in anonVotes :
                                vote_poll_of(anonOptions, v) = resp.poll })

\* A total is reported for a poll with votes while another poll has votes
\* too.
C7_Witness ==
    /\ resp.kind = "poll_results"
    /\ resp.total_votes >= 1
    /\ \E v \in votes : v.poll # resp.poll

\* C8: the results of a poll without votes are computed without a fault
\* and show percentage 0 for every option.
C8_ZeroVotesZeroPercent ==
    /\ (resp.kind = "poll_results"
           /\ resp.poll \in PollIds(polls)
           /\ { v \in votes : v.poll = resp.poll } = {})
          => /\ resp.status = 200
             /\ Len(resp.options) = Cardinality(OptionsOf(options, resp.poll))
             /\ \A i \in 1 .. Len(resp.options) :
                   resp.options[i].percentage.n = 0
                   /\ resp.options[i].percentage.d # 0
    /\ \A o \in options :
          { v \in votes : v.poll = o.poll } = {}
             => vote_percentage(votes, o).n = 0 /\ vote_percentage(votes, o).d # 0
    /\ (resp.kind \in {"polls_poll_results", "PollDetailView_retrieve"}
           /\ resp.poll \in AnonPollIds
           /\ { v \in anonVotes :
                  vote_poll_of(anonOptions, v) = resp.poll } = {})
          => /\ resp.status = 200
             /\ Len(resp.options) =
                   Cardinality({ o \in anonOptions : o.poll = resp.poll })
             /\ \A i \in 1 .. Len(resp.options) :
                   resp.options[i].percentage.n = 0
                   /\ resp.options[i].percentage.d # 0

\* Results were read for a poll with options and no vote.
C8_Witness ==
    /\ resp.kind = "poll_results"
    /\ resp.success
    /\ Len(resp.options) >= 2
    /\ resp.total_votes = 0

\* C9: on every endpoint that reports option percentages, the percentage of
\* an option of a poll with votes is count / total x 100 rounded to one
\* decimal place.
C9_PercentageRoundedToOneDecimal ==
    ( /\ resp.kind \in {"poll_results", "polls_poll_results",
                        "PollDetailView_retrieve"}
      /\ resp.success
      /\ resp.total_votes >= 1 )
        => \A i \in 1 .. Len(resp.options) :
              SameNumber(resp.options[i].percentage,
                         round([n |-> resp.options[i].vote_count * 100,
                                d |-> resp.total_votes], 10))

\* C10: once a vote request has returned success, a results read of that
\* state shows the vote: the voter's user_vote is the voted option, and the
\* option's count and the poll's total include the vote; and what the
\* results handler answers is that read.
C10_ReadAfterWrite ==
    /\ (resp.kind = "vote_poll" /\ resp.success) =>
          LET rows == options_with_votes(options, votes, resp.poll)
          IN  /\ user_vote(votes, resp.poll, resp.user) = resp.option
              /\ total_votes(votes, resp.poll) >= 1
              /\ \E i \in 1 .. Len(rows) : /\ rows[i].id \in resp.option
                                           /\ rows[i].vote_count >= 1
    /\ (resp.kind = "poll_results" /\ resp.success) =>
          /\ resp.options = options_with_votes(options, votes, resp.poll)
          /\ resp.user_vote = user_vote(votes, resp.poll, resp.user)
          /\ resp.total_votes = total_votes(votes, resp.poll)

\* A re-vote has returned success while the other voter has a vote in the
\* same poll.
C10_Witness ==
    /\ resp.kind = "vote_poll"
    /\ resp.success
    /\ resp.message = "Vote updated successfully!"
    /\ resp.total_votes >= 2

\* C11: a results fetch changes no poll, option or vote, and a second fetch
\* right after it, computed from the state the first one left, gives the
\* output of the first.
C11_ResultsFetchIdempotent ==
    [][(resp = NoResponse
          /\ resp'.kind \in {"poll_results", "polls_poll_results"})
        => /\ db' = db
           /\ anon' = anon
           /\ (resp'.kind = "poll_results" /\ resp'.success) =>
                 /\ resp'.options =
                       options_with_votes(options', votes', resp'.poll)
                 /\ resp'.total_votes = total_votes(votes', resp'.poll)
                 /\ resp'.user_vote =
                       user_vote(votes', resp'.poll, resp'.user)
           /\ (resp'.kind = "polls_poll_results" /\ resp'.success) =>
                 /\ resp'.options =
                       anon_results(anonOptions', anonVotes', resp'.poll)
                 /\ resp'.total_votes =
                       anon_total_votes(anonOptions', anonVotes', resp'.poll)
      ]_vars

\* A voter has fetched the results of an open poll they voted in.
C11_Witness ==
    /\ resp.kind = "poll_results"
    /\ resp.success
    /\ resp.user_vote # {}
    /\ PollById(resp.poll).is_active

\* C12: a successful vote by a voter whose vote in the poll is on another
\* option overwrites that vote: the old option's count drops by 1, the new
\* option's count rises by 1, and the number of votes of the poll (and of
\* the table) stays the same.
C12_RevoteOverwritesOption ==
    [][\A t \in Threads :
          \A v \in votes :
             ( /\ req[t].pc = "write" /\ req'[t].pc = "idle"
               /\ resp'.success
               /\ v.poll = req[t].poll /\ v.user = req[t].user
               /\ v.option # req[t].option )
             => /\ resp'.message = "Vote updated successfully!"
                /\ vote_count(votes', v.option) = vote_count(votes, v.option) - 1
                /\ vote_count(votes', req[t].option)
                      = vote_count(votes, req[t].option) + 1
                /\ total_votes(votes', v.poll) = total_votes(votes, v.poll)
                /\ Cardinality(votes') = Cardinality(votes)
                /\ \E w \in votes' : /\ w.id = v.id
                                      /\ w.option = req[t].option
                                      /\ w.user = v.user /\ w.poll = v.poll
      ]_vars

\* A re-vote has moved a voter's vote to another option: a request still
\* in flight read the vote on its old option, the table has it on the new.
C12_Witness ==
    /\ resp.kind = "vote_poll"
    /\ resp.message = "Vote updated successfully!"
    /\ \E t \in Threads :
          /\ req[t].pc = "write"
          /\ \E old \in req[t].existing :
                /\ old.user = resp.user
                /\ old.option \notin resp.option
                /\ \E w \in votes : w.id = old.id /\ w.option \in resp.option

\* C13: a vote request for an option of the poll, by a voter without a
\* vote in that poll, succeeds and adds exactly one Vote row, which
\* references the requested option and the voter.  In poll_system the
\* lookup step lets every such request through to its write; in polls the
\* voter is the (IP, session) pair and the poll must be open.
C13_FirstVoteCreatesOneRow ==
    [][/\ \A t \in Threads :
            ( /\ req[t].pc = "write" /\ req'[t].pc = "idle"
              /\ get_option(options, req[t].poll, req[t].option) # {}
              /\ req[t].poll \in PollIds(polls)
              /\ ~\E v \in votes : v.poll = req[t].poll
                                    /\ v.user = req[t].user )
            => /\ resp'.success
               /\ resp'.status = 200
               /\ \E row \in votes' :
                     /\ row \notin votes
                     /\ votes' = votes \cup {row}
                     /\ row.poll = req[t].poll
                     /\ row.option = req[t].option
                     /\ row.user = req[t].user
       /\ ( /\ resp = NoResponse
            /\ resp'.kind = "vote_poll"
            /\ req' = req
            /\ resp'.user \in Users
            /\ resp'.poll \in PollIds(polls)
            /\ resp'.option # {} )
            => get_option(options, resp'.poll, the(resp'.option)) = {}
       /\ ( /\ resp = NoResponse
            /\ resp'.kind = "VoteCreateView"
            /\ VoteSerializer_is_valid(resp'.option)
            /\ ~\E v \in anonVotes :
                   /\ vote_poll_of(anonOptions, v)
                         = vote_poll_of(anonOptions,
                                        [option |-> the(resp'.option)])
                   /\ v.voter_ip = resp'.voter_ip
                   /\ v.voter_session = resp'.voter_session )
            => /\ resp'.status = 201
               /\ \E row \in anonVotes' :
                     /\ row \notin anonVotes
                     /\ anonVotes' = anonVotes \cup {row}
                     /\ row.option = the(resp'.option)
                     /\ row.voter_ip = resp'.voter_ip
                     /\ row.voter_session = resp'.voter_session
      ]_vars

\* A voter who has a vote in one poll has cast a first vote in another.
C13_Witness ==
    /\ resp.kind = "vote_poll"
    /\ resp.message = "Vote submitted successfully!"
    /\ resp.total_votes = 1
    /\ \E v \in votes : v.user = resp.user /\ v.poll # resp.poll

\* C14: an edit or delete request on an existing poll by anyone who is not
\* the poll's creator is answered with 403 and changes no table: PUT and
\* DELETE of poll_detail in poll_system, update and destroy of
\* PollDetailView in polls.
C14_NonCreatorDenied ==
    [][/\ ( /\ resp = NoResponse
            /\ resp'.kind \in {"poll_detail_PUT", "poll_detail_DELETE"}
            /\ resp'.poll \in PollIds(polls)
            /\ PollById(resp'.poll).creator # resp'.user )
            => (resp'.status = 403 /\ db' = db)
       /\ ( /\ resp = NoResponse
            /\ resp'.kind \in {"PollDetailView_update",
                                "PollDetailView_destroy"}
            /\ resp'.poll \in AnonPollIds
            /\ resp'.user \notin AnonPollById(resp'.poll).created_by )
            => (resp'.status = 403 /\ anon' = anon)
      ]_vars

\* C15: an unauthenticated request to create a poll, to vote, or to edit or
\* delete an existing poll is answered with 401 or 403 and changes no table
\* and no request in flight.
C15_UnauthenticatedDenied ==
    [][/\ ( /\ resp = NoResponse
            /\ resp'.kind \in {"create_poll", "vote_poll", "poll_detail_PUT",
                                "poll_detail_DELETE"}
            /\ req' = req
            /\ resp'.kind \in {"poll_detail_PUT", "poll_detail_DELETE"}
                  => resp'.poll \in PollIds(polls)
            /\ resp'.user = Anonymous )
            => (resp'.status \in {401, 403} /\ db' = db)
       /\ ( /\ resp = NoResponse
            /\ resp'.kind \in {"PollDetailView_update",
                                "PollDetailView_destroy"}
            /\ resp'.poll \in AnonPollIds
            /\ resp'.user = Anonymous )
            => (resp'.status \in {401, 403} /\ anon' = anon)
      ]_vars

\* A list of option texts as a poll form sends them: strings.
AllStrings(texts) == \A i \in 1 .. Len(texts) : texts[i] # JsonNull

\* Option texts that are well formed for the serializer of polls: strings
\* of two characters or more, all different.
WellFormed(texts) ==
    /\ AllStrings(texts)
    /\ \A i \in 1 .. Len(texts) : length(strip(texts[i])) >= 2
    /\ \A i, j \in 1 .. Len(texts) : strip(texts[i]) = strip(texts[j]) => i = j

\* C16: with a valid title, a poll creation is accepted exactly when the
\* request supplies 2 to 10 options: by create_poll of poll_system for an
\* authenticated user, by PollCreateView of polls for well-formed texts
\* (and no expiry).
C16_AcceptedIffTwoToTenOptions ==
    /\ ( /\ resp.kind = "create_poll"
         /\ resp.user \in Users
         /\ resp.title # ""
         /\ AllStrings(resp.texts) )
         => (resp.success <=> (Len(resp.texts) >= 2 /\ Len(resp.texts) <= 10))
    /\ ( /\ resp.kind = "PollCreateView"
         /\ length(strip(resp.title)) >= 5
         /\ resp.expires_at = {}
         /\ WellFormed(resp.texts) )
         => (resp.success <=> (Len(resp.texts) >= 2 /\ Len(resp.texts) <= 10))

\* A poll has been created with ten options.
C16_Witness ==
    /\ resp.kind = "create_poll"
    /\ resp.success
    /\ Len(resp.texts) = 10
    /\ Cardinality(OptionsOf(options, resp.poll)) = 10

\* C17: every persisted poll has at least 2 and at most 10 options.
C17_TwoToTenOptionsPerPoll ==
    /\ \A p \in polls :
          /\ Cardinality(OptionsOf(options, p.id)) >= 2
          /\ Cardinality(OptionsOf(options, p.id)) <= 10
    /\ \A p \in anonPolls :
          /\ Cardinality({ o \in anonOptions : o.poll = p.id }) >= 2
          /\ Cardinality({ o \in anonOptions : o.poll = p.id }) <= 10

\* C18: no two options of the same poll have the same text.
C18_OptionTextsUniqueInPoll ==
    /\ \A o1, o2 \in options :
          (o1.poll = o2.poll /\ o1.text = o2.text) => o1 = o2
    /\ \A o1, o2 \in anonOptions :
          (o1.poll = o2.poll /\ o1.text = o2.text) => o1 = o2

\* C19: a poll creation or poll edit that ends in an error response leaves
\* no part of its effect behind: no table has changed.
C19_ErrorLeavesNothingBehind ==
    [][( /\ resp = NoResponse
         /\ resp'.kind \in {"create_poll", "poll_detail_PUT", "PollCreateView"}
         /\ ~resp'.success )
        => (db' = db /\ anon' = anon)]_vars

\* C20: the body of every response to a request that failed carries
\* success = false: the flag is neither true nor missing.
C20_ErrorBodyHasSuccessFalse ==
    (resp.kind # "none" /\ ~resp.success) => resp.flag = {FALSE}

\* Every Option references an existing Poll, and every Vote an existing
\* Poll and an existing Option, in both apps.
NoOrphans ==
    /\ \A o \in options : o.poll \in PollIds(polls)
    /\ \A v \in votes : /\ v.poll \in PollIds(polls)
                        /\ v.option \in { o.id : o \in options }
    /\ \A o \in anonOptions : o.poll \in AnonPollIds
    /\ \A v \in anonVotes : /\ v.option \in { o.id : o \in anonOptions }
                            /\ vote_poll_of(anonOptions, v) \in AnonPollIds

\* C21: deleting a poll removes all of its options and all of its votes,
\* and in every reachable state no Option and no Vote is an orphan.
C21_DeleteCascadesNoOrphans ==
    /\ []NoOrphans
    /\ [][/\ ( /\ resp = NoResponse
               /\ resp'.kind = "poll_detail_DELETE"
               /\ resp'.success )
               => /\ resp'.poll \notin PollIds(polls')
                  /\ \A o \in options' : o.poll # resp'.poll
                  /\ \A v \in votes' :
                        /\ v.poll # resp'.poll
                        /\ v.option \notin OptionsOf(options, resp'.poll)
                  \* and nothing of another poll is touched
                  /\ { p \in polls : p.id # resp'.poll } = polls'
                  /\ { o \in options : o.poll # resp'.poll } = options'
                  /\ { v \in votes : v.poll # resp'.poll } = votes'
          /\ ( /\ resp = NoResponse
               /\ resp'.kind = "PollDetailView_destroy"
               /\ resp'.success )
               => /\ resp'.poll \notin { p.id : p \in anonPolls' }
                  /\ \A o \in anonOptions' : o.poll # resp'.poll
                  /\ \A v \in anonVotes' :
                        v.option \notin { o.id : o \in { x \in anonOptions :
                                                          x.poll = resp'.poll } }
         ]_vars

\* A poll has been deleted while a vote request in flight holds the vote it
\* read in that poll: the poll had a vote, and the table has none of it.
C21_Witness ==
    /\ resp.kind = "poll_detail_DELETE"
    /\ resp.success
    /\ \E t \in Threads :
          /\ req[t].pc = "write"
          /\ req[t].poll = resp.poll
          /\ req[t].existing # {}
    /\ \E v \in votes : v.poll # resp.poll

\* C22: the creation timestamp of a Vote never changes while the Vote
\* exists; a re-vote that overwrites the Vote's option leaves it as it was.
C22_VoteTimestampImmutable ==
    [][\A v \in votes : \A w \in votes' :
          w.id = v.id => w.created_at = v.created_at]_vars

\* A re-vote at a later time than the vote: the vote is on the new option
\* and carries the time of its creation.
C22_Witness ==
    /\ resp.kind = "vote_poll"
    /\ resp.message = "Vote updated successfully!"
    /\ \E v \in votes : /\ v.user = resp.user
                        /\ v.poll = resp.poll
                        /\ v.option \in resp.option
                        /\ v.created_at < now

\* C23: no two users share a username and no two users share an email
\* address, whatever the interleaving of registration requests.
C23_UsernameAndEmailUnique ==
    \A u, w \in users :
        (u.username = w.username \/ u.email = w.email) => u = w

\* C24: the detailed-statistics endpoint answers with a completion rate,
\* which is (number of polls with at least one vote) / (number of polls)
\* x 100, to two decimal places (0 when there is no poll), and lies between
\* 0 and 100: detailed_statistics of poll_system, analytics_detailed of
\* polls.
C24_CompletionRate ==
    /\ resp.kind = "detailed_statistics" =>
          /\ resp.status = 200
          /\ 0 <= resp.completionRate.n
          /\ resp.completionRate.n <= 100 * resp.completionRate.d
          /\ resp.completionRate =
                IF polls = {} THEN [n |-> 0, d |-> 1]
                ELSE round([n |-> 100 * Cardinality(
                                     { p \in polls :
                                         \E v \in votes : v.poll = p.id }),
                            d |-> Cardinality(polls)], 100)
    /\ resp.kind = "analytics_detailed" =>
          /\ resp.status = 200
          /\ 0 <= resp.completionRate.n
          /\ resp.completionRate.n <= 100 * resp.completionRate.d
          /\ resp.completionRate =
                IF anonPolls = {} THEN [n |-> 0, d |-> 1]
                ELSE round([n |-> 100 * Cardinality(
                                     { p \in anonPolls :
                                         \E v \in anonVotes :
                                            vote_poll_of(anonOptions, v) = p.id }),
                            d |-> Cardinality(anonPolls)], 100)

\* A reported rate is the number 0.
IsZero(pct) == pct.n = 0 /\ pct.d # 0

C26_TopPollsOrderedAndTruncated ==
    /\ resp.kind = "top_polls" =>
          LET top == resp.topPolls
              n == Cardinality(polls)
          IN  /\ Len(top) = IF n < TopPollsLimit THEN n ELSE TopPollsLimit
              /\ \A i, j \in 1 .. Len(top) :
                    /\ i < j => top[i].vote_count >= top[j].vote_count
                    /\ top[i].id = top[j].id => i = j
              /\ \A i \in 1 .. Len(top) :
                    /\ top[i].id \in PollIds(polls)
                    /\ top[i].vote_count = total_votes(votes, top[i].id)
              /\ \A p \in polls :
                    (\A i \in 1 .. Len(top) : top[i].id # p.id) =>
                       \A i \in 1 .. Len(top) :
                          total_votes(votes, p.id) <= top[i].vote_count
    /\ resp.kind = "analytics_top_polls" =>
          LET top == resp.topPolls
              n == Cardinality(anonPolls)
          IN  /\ Len(top) = IF n < AnalyticsTopPollsLimit THEN n
                            ELSE AnalyticsTopPollsLimit
              /\ \A i, j \in 1 .. Len(top) :
                    /\ i < j => top[i].vote_count >= top[j].vote_count
                    /\ top[i].id = top[j].id => i = j
              /\ \A i \in 1 .. Len(top) :
                    /\ top[i].id \in AnonPollIds
                    /\ top[i].vote_count =
                          anon_total_votes(anonOptions, anonVotes, top[i].id)
              /\ \A p \in anonPolls :
                    (\A i \in 1 .. Len(top) : top[i].id # p.id) =>
                       \A i \in 1 .. Len(top) :
                          anon_total_votes(anonOptions, anonVotes, p.id)
                             <= top[i].vote_count

\* C27: Poll.get_results has exactly one entry per option of the poll, in
\* the options' display order (ascending order field, then id), and the
\* votes of each entry is the number of Vote rows for that option.
C27_GetResultsPerOptionInOrder ==
    (resp.kind = "PollDetailView_retrieve" /\ resp.success) =>
       LET rows == resp.options
           mine == { o \in anonOptions : o.poll = resp.poll }
           opt(i) == CHOOSE o \in anonOptions : o.id = rows[i].id
       IN  /\ Len(rows) = Cardinality(mine)
           /\ { rows[i].id : i \in 1 .. Len(rows) } = { o.id : o \in mine }
           /\ \A i, j \in 1 .. Len(rows) :
                 i < j => \/ opt(i).order < opt(j).order
                          \/ /\ opt(i).order = opt(j).order
                             /\ opt(i).id < opt(j).id
           /\ \A i \in 1 .. Len(rows) :
                 /\ rows[i].text = opt(i).text
                 /\ rows[i].vote_count =
                       Cardinality({ v \in anonVotes : v.option = rows[i].id })

\* The results of a poll of three options were read, in which the order
\* field puts a higher id first, two options tie on the order field, an
\* option has two votes, and the other poll has a vote.
C27_Witness ==
    /\ resp.kind = "PollDetailView_retrieve"
    /\ resp.success
    /\ Len(resp.options) = 3
    /\ \E i, j \in 1 .. 3 : i < j /\ resp.options[i].id > resp.options[j].id
    /\ \E o1, o2 \in anonOptions :
          o1.poll = resp.poll /\ o2.poll = resp.poll /\ o1 # o2
          /\ o1.order = o2.order
    /\ \E i \in 1 .. 3 : resp.options[i].vote_count = 2
    /\ \E v \in anonVotes : vote_poll_of(anonOptions, v) # resp.poll

\* The sum of the vote counts of the entries of a results list.
RECURSIVE SumOfVoteCounts(_)
SumOfVoteCounts(rows) ==
    IF rows = <<>> THEN 0
    ELSE Head(rows).vote_count + SumOfVoteCounts(Tail(rows))

C29_EditResetsVotes ==
    [][( /\ resp = NoResponse
         /\ resp'.kind = "poll_detail_PUT"
         /\ resp'.success )
        => LET pid == resp'.poll
           IN  /\ resp'.user = PollById(pid).creator
               /\ Len(resp'.texts) >= 2
               /\ OptionsOf(options', pid) \cap OptionsOf(options, pid) = {}
               /\ \A o \in options : o.poll = pid => o \notin options'
               /\ \A v \in votes : v.poll = pid => v \notin votes'
               /\ total_votes(votes', pid) = 0
               /\ \A oid \in OptionsOf(options', pid) :
                     vote_count(votes', oid) = 0
               /\ resp'.total_votes = 0
               /\ \A i \in 1 .. Len(resp'.options) :
                     resp'.options[i].vote_count = 0
               \* the votes of the other polls stay
               /\ { v \in votes : v.poll # pid } = votes'
      ]_vars

\* A poll that had a vote (a vote request in flight read it) was edited
\* with the option texts it already had: it has two new options and no
\* vote.
C29_Witness ==
    /\ resp.kind = "poll_detail_PUT"
    /\ resp.success
    /\ resp.texts = <<"Pizza", "Sushi">>
    /\ \E t \in Threads :
          /\ req[t].pc = "write"
          /\ req[t].poll = resp.poll
          /\ req[t].existing # {}
    /\ { o.text : o \in { x \in options : x.poll = resp.poll } }
          = {"Pizza", "Sushi"}
    /\ total_votes(votes, resp.poll) = 0

\* C30: a create, vote, edit or delete request answered with 400 leaves
\* the polls, options and votes as they were: the checks of the title, of
\* the number of options and of option_id run before the first write.
C30_ValidationErrorChangesNothing ==
    [][( /\ resp = NoResponse
         /\ resp'.kind \in {"create_poll", "vote_poll", "poll_detail_PUT",
                             "poll_detail_DELETE", "PollCreateView",
                             "VoteCreateView"}
         /\ resp'.status = 400 )
        => (db' = db /\ anon' = anon /\ req' = req)]_vars

\* A creation with eleven options was refused while polls and votes exist.
C30_Witness ==
    /\ resp.kind = "create_poll"
    /\ resp.status = 400
    /\ resp.title # ""
    /\ Len(resp.texts) = 11
    /\ polls # {}
    /\ votes # {}

====
